---- MODULE Spec2Model ----
(***************************************************************************)
(* Job lifecycle and process supervision of HandBrakeService               *)
(* (src/src/handbrake_mcp/services/handbrake.py) and of the tool wrappers  *)
(* that call it (src/src/handbrake_mcp/tools/handbrake_tools.py).          *)
(*                                                                         *)
(* The service runs on one asyncio event loop: code between two awaits     *)
(* that really suspend is one atomic step, every suspension is a point    *)
(* where any other ready coroutine may run.  The external transcoder, the  *)
(* file system and the host load are the environment.                      *)
(***************************************************************************)
EXTENDS Integers, Sequences, FiniteSets, TLC

\* ------------------------------------------------------------------------
\* Bounds of the model
\* ------------------------------------------------------------------------
\* jobs created in the lifecycle specification (worker, process and
\* cancel_job in every interleaving)
MaxJobs == 1
\* jobs created in the fair lifecycle specification
MaxLiveJobs == 1
\* jobs created in the registry specification
MaxRegistryJobs == 3
\* jobs created in the admission-burst specification
MaxBurstJobs == 6
\* jobs created in the validation specification
MaxAdmissionJobs == 2
\* jobs asked for while presets are discovered
MaxDiscoveryJobs == 2
\* jobs run one after the other, each with a cancel_job racing its process
MaxRaceJobs == 2
\* jobs that run to their end without a cancel_job
MaxOutputJobs == 2
\* jobs started by process_file for files of a watch folder
MaxWatchJobs == 1

\* ------------------------------------------------------------------------
\* Program constants
\* ------------------------------------------------------------------------
max_concurrent_jobs == 5
min_file_size_bytes == 1024
max_file_size_gb == 10
max_path_length == 1000
cpu_threshold == 90
memory_threshold == 85
disk_threshold == 90
default_preset == "Fast 1080p30"
fallback_presets == <<"Fast 1080p30", "HQ 1080p30 Surround", "Web Optimized">>

None == "None"

terminal_statuses == {"completed", "failed", "cancelled"}

\* ------------------------------------------------------------------------
\* Paths.  A raw path is the sequence of its segments below the root; the
\* text of a segment is looked up in the tables below.
\* ------------------------------------------------------------------------
\* PurePath.stem of a segment, as its characters
Stem(seg) ==
    CASE seg = "a.mp4"    -> <<"a">>
      [] seg = "1_a.mp4"  -> <<"1", "_", "a">>
      [] seg = "b.txt"    -> <<"b">>
      [] seg = "c<.mp4"   -> <<"c", "<">>
      [] seg = "gone.mp4" -> <<"g">>
      [] seg = "tiny.mp4" -> <<"t">>
      [] seg = "huge.mp4" -> <<"h">>
      [] seg = "min.mp4"  -> <<"m", "i", "n">>
      [] seg = "max.mp4"  -> <<"m", "a", "x">>
      [] seg = "out.mkv"  -> <<"o">>
      [] seg = "a_converted.mkv" -> <<"a", "_", "c", "o", "n", "v", "e", "r", "t", "e", "d">>
      [] OTHER            -> <<seg>>

\* PurePath.suffix of a segment, lower-cased
Suffix(seg) ==
    CASE seg \in {"a.mp4", "1_a.mp4", "c<.mp4", "gone.mp4", "tiny.mp4", "huge.mp4",
                  "min.mp4", "max.mp4"} -> ".mp4"
      [] seg = "b.txt"   -> ".txt"
      [] seg \in {"out.mkv", "a_converted.mkv"} -> ".mkv"
      [] OTHER           -> ""

\* number of characters of a segment
SegLen(seg) ==
    CASE seg = "long" -> 1001
      [] seg = ".."   -> 2
      [] seg = "v"    -> 1
      [] OTHER        -> Len(Stem(seg)) + 4

\* the segment holds one of < > : " | ? *
HasDangerousChar(seg) == seg = "c<.mp4"

allowed_extensions == {".mp4", ".mkv", ".avi", ".mov", ".m4v", ".wmv", ".flv", ".webm"}

\* Path.resolve(): a ".." segment removes the segment before it
RECURSIVE ResolveFrom(_, _)
ResolveFrom(done, rest) ==
    IF rest = <<>> THEN done
    ELSE IF Head(rest) = ".."
         THEN ResolveFrom(IF done = <<>> THEN <<>> ELSE SubSeq(done, 1, Len(done) - 1), Tail(rest))
         ELSE ResolveFrom(Append(done, Head(rest)), Tail(rest))

Resolve(raw) == ResolveFrom(<<>>, raw)

RECURSIVE PathLen(_)
PathLen(p) == IF p = <<>> THEN 0 ELSE 1 + SegLen(Head(p)) + PathLen(Tail(p))

\* Sizes are byte counts written as mib * 2^20 + b, so that 10 GiB fits
Size(mib, b) == [mib |-> mib, b |-> b]
SizeLt(x, y) == x.mib < y.mib \/ (x.mib = y.mib /\ x.b < y.b)

\* The files on disk (resolved path -> size); everything else is absent
Files == {<<"v", "a.mp4">>, <<"v", "1_a.mp4">>, <<"v", "b.txt">>,
          <<"v", "tiny.mp4">>, <<"v", "huge.mp4">>, <<"v", "min.mp4">>, <<"v", "max.mp4">>}

IsFile(p) == p \in Files
Exists(p) == p \in Files \/ p = <<"v">> \/ p = <<>>

StatSize(p) ==
    CASE p = <<"v", "tiny.mp4">> -> Size(0, 1023)
      [] p = <<"v", "huge.mp4">> -> Size(10240, 1)
      [] p = <<"v", "min.mp4">>  -> Size(0, 1024)
      [] p = <<"v", "max.mp4">>  -> Size(10240, 0)
      [] OTHER                   -> Size(0, 1500)

\* HandBrakeService._validate_and_secure_path: the error raised, or "ok"
ValidatePathError(raw) ==
    LET path_obj == Resolve(raw) IN
    IF \E i \in 1..Len(raw) : HasDangerousChar(raw[i]) THEN "ValueError: invalid characters"
    ELSE IF \E i \in 1..Len(path_obj) : path_obj[i] = ".." THEN "ValueError: directory traversal"
    ELSE IF IsFile(path_obj) /\ Suffix(path_obj[Len(path_obj)]) \notin allowed_extensions
         THEN "ValueError: unsupported format"
    ELSE IF PathLen(path_obj) > max_path_length THEN "ValueError: path too long"
    ELSE "ok"

\* ------------------------------------------------------------------------
\* Options
\* ------------------------------------------------------------------------
allowed_keys == {"quality", "encoder", "audio", "ab", "ar", "acodec", "aname", "aencoder",
                 "subtitle", "scodec", "sencoder", "width", "height", "crop", "deinterlace",
                 "denoise", "deblock", "colorspace", "format", "optimize", "ipod-atom",
                 "use-opencl", "use-qsv", "use-nvenc", "preset", "input", "output"}

\* the character U+0060 is written "backtick"
injection_chars == {";", "&", "|", "backtick", "$", "(", ")", "<", ">", "\"", "'"}

max_option_value_length == 1000
max_option_number == 1000000

RECURSIVE RemoveChars(_, _)
RemoveChars(s, bad) ==
    IF s = <<>> THEN <<>>
    ELSE IF Head(s) \in bad THEN RemoveChars(Tail(s), bad)
         ELSE <<Head(s)>> \o RemoveChars(Tail(s), bad)

\* str.strip() removes leading and trailing whitespace
whitespace == {" ", "\t"}

RECURSIVE LStrip(_)
LStrip(s) == IF s # <<>> /\ Head(s) \in whitespace THEN LStrip(Tail(s)) ELSE s

RECURSIVE RStrip(_)
RStrip(s) == IF s # <<>> /\ s[Len(s)] \in whitespace THEN RStrip(SubSeq(s, 1, Len(s) - 1)) ELSE s

Strip(s) == RStrip(LStrip(s))

\* A text is a sequence of characters; in a key, the name of an allowed
\* option is written as one element.  An option value is
\* [t |-> "bool", v |-> BOOLEAN], [t |-> "int", v |-> Int],
\* [t |-> "float", v |-> Int] (a whole-valued float), [t |-> "str", v |-> text]
\* or [t |-> "other", v |-> text of str(value)].  An options dict is the
\* sequence of its <<key, value>> items in insertion order.

\* characters of the model's texts that are neither alphanumeric nor - nor _
non_key_chars == whitespace \cup injection_chars \cup {"[", "]", "=", "."}

\* safe_key in allowed_keys, for safe_key = str(key).strip()
KeyAllowed(safe_key) == Len(safe_key) = 1 /\ safe_key[1] \in allowed_keys

\* the item is not skipped by a continue
OptionKept(kv) ==
    /\ KeyAllowed(Strip(kv[1]))
    /\ kv[2].t \in {"int", "float"}
          => (kv[2].v >= -max_option_number /\ kv[2].v <= max_option_number)
    /\ kv[2].t \in {"str", "other"} => Len(Strip(kv[2].v)) <= max_option_value_length

\* variant: string values are stripped and nothing is removed
SafeValueStripOnly(val) ==
    IF val.t \in {"str", "other"} THEN [t |-> "str", v |-> Strip(val.v)]
    ELSE val

\* safe_value of an item that is kept
SafeValue(val) ==
    IF val.t \in {"str", "other"}
    THEN [t |-> "str", v |-> RemoveChars(Strip(val.v), injection_chars)]
    ELSE val

\* safe_options[safe_key] = safe_value: a key already present keeps its
\* place and gets the new value
DictSet(dict, key, val) ==
    IF \E i \in 1..Len(dict) : dict[i][1] = key
    THEN [i \in 1..Len(dict) |-> IF dict[i][1] = key THEN <<key, val>> ELSE dict[i]]
    ELSE Append(dict, <<key, val>>)

\* the loop of _sanitize_options over the items left, safe_options so far
RECURSIVE SanitizeFrom(_, _)
SanitizeFrom(safe_options, items) ==
    IF items = <<>> THEN safe_options
    ELSE LET kv == Head(items) IN
         SanitizeFrom(IF OptionKept(kv)
                      THEN DictSet(safe_options,
                                   RemoveChars(Strip(kv[1]), non_key_chars), SafeValue(kv[2]))
                      ELSE safe_options,
                      Tail(items))

\* HandBrakeService._sanitize_options
_sanitize_options(options) == SanitizeFrom(<<>>, options)

\* ------------------------------------------------------------------------
\* Values of the job record and of the environment
\* ------------------------------------------------------------------------
\* Optional[str]: <<>> is None, <<text>> is the string text (a token sequence,
\* <<>> being the empty string)
NoError == <<>>
ErrorOf(text) == <<text>>

DigitChar(d) == CASE d = 0 -> "0" [] d = 1 -> "1" [] d = 2 -> "2" [] d = 3 -> "3"
                  [] d = 4 -> "4" [] d = 5 -> "5" [] d = 6 -> "6" [] d = 7 -> "7"
                  [] d = 8 -> "8" [] d = 9 -> "9"

\* str(n) for n >= 0
RECURSIVE IntStr(_)
IntStr(n) == IF n < 10 THEN <<DigitChar(n)>> ELSE IntStr(n \div 10) \o <<DigitChar(n % 10)>>

\* f"job_{len(self.jobs) + 1}_{input_path.stem}"
JobId(n, stem) == <<"j", "o", "b", "_">> \o IntStr(n) \o <<"_">> \o stem

\* f"HandBrakeCLI failed with code {returncode}: {stderr}"
ExitError(rc) == <<"HandBrakeCLI failed with code ", IntStr(rc), ": ", "stderr">>

\* stdout lines of the transcoder, as json.loads and the Progress lookup see them
ProgressValues == {25, 50, 150}
\* objects with a numeric Progress, and text that is not JSON (JSONDecodeError)
ProgressLines == [k : {"progress"}, v : ProgressValues] \cup {[k |-> "text", v |-> 0]}
\* lines of every kind: a progress object, text, a JSON number ("Progress" in
\* data raises TypeError) and {"Progress": null} (float(None) raises TypeError)
Lines == {[k |-> "progress", v |-> 50], [k |-> "text", v |-> 0],
          [k |-> "json_number", v |-> 0], [k |-> "progress_null", v |-> 0]}

\* str(e) of what create_subprocess_exec raises: NotImplementedError() has no
\* message, OSError has one
SpawnErrors == {<<>>, <<"OSError">>}

\* exit codes of the transcoder (1 stands for every non-zero code)
ExitCodes == {0, 1}
NoReturnCode == -1

\* host load samples seen by _check_system_resources
Load(psutil, cpu, mem, disk) == [psutil |-> psutil, cpu |-> cpu, mem |-> mem, disk |-> disk]
Loads == {Load(TRUE, 90, 85, 90), Load(TRUE, 91, 86, 91), Load(TRUE, 90, 86, 91),
          Load(TRUE, 90, 85, 91), Load(FALSE, 91, 86, 91)}

\* arguments of transcode
InputPaths == {<<"v", "a.mp4">>, <<"v", "..", "v", "a.mp4">>,
               <<"v", "b.txt">>, <<"v", "c<.mp4">>, <<"v", "gone.mp4">>,
               <<"v", "tiny.mp4">>, <<"v", "huge.mp4">>, <<"v", "min.mp4">>,
               <<"v", "max.mp4">>, <<"long", "a.mp4">>}
OutputPaths == {<<"v", "out.mkv">>}
OptionArgs == {<<>>}

\* a value longer than the maximum length
LongValue == [i \in 1..(max_option_value_length + 1) |-> "x"]

\* options dicts: unknown and padded keys, two keys that strip to the same
\* name, values of every type, values with every removed character, a
\* value with whitespace next to a removed character, a key that is also a
\* flag of the command line
OptionMaps ==
    {<<>>,
     << << <<" ", "quality">>, [t |-> "str", v |-> <<" ", "2", ";", " ", "r", "m", "\t">>] >>,
        << <<"e", "v", "i", "l">>, [t |-> "str", v |-> <<"1">>] >>,
        << <<"quality">>, [t |-> "other", v |-> <<"[", "'", "2", "'", "]">>] >>,
        << <<"input">>, [t |-> "str", v |-> <<"w", "z.mp4">>] >> >>,
     << << <<"encoder">>, [t |-> "str", v |-> <<";", " ", "&", "|", "backtick", "$", "(", "x", ")", "<", ">", "\"", "'">>] >>,
        << <<"width">>, [t |-> "int", v |-> 1280] >>,
        << <<"height">>, [t |-> "int", v |-> 1000001] >>,
        << <<"optimize">>, [t |-> "bool", v |-> TRUE] >>,
        << <<"ab">>, [t |-> "float", v |-> -1000000] >>,
        << <<"aname">>, [t |-> "str", v |-> LongValue] >>,
        << <<"encoder", ";">>, [t |-> "str", v |-> <<"x">>] >> >>}

\* what one preset query can end with: an exception of _run_handbrake, or
\* the list parsed from its output
DiscoveryOutcomes == {<<"raise">>, <<"list", <<"Fast 1080p30", "Very Fast 720p30">> >>,
                      <<"list", <<>> >>}

\* variant: the status is left at the default of TranscodeJob
NewJobPending(job_id, input_path, output_path, preset, options) ==
    [job_id |-> job_id, input_path |-> input_path, output_path |-> output_path,
     preset |-> preset, options |-> options,
     status |-> "pending", progress |-> 0, error |-> NoError, process |-> FALSE]

NewJob(job_id, input_path, output_path, preset, options) ==
    [job_id |-> job_id, input_path |-> input_path, output_path |-> output_path,
     preset |-> preset, options |-> options,
     status |-> "queued", progress |-> 0, error |-> NoError, process |-> FALSE]

\* cmd is the argument vector handed to create_subprocess_exec
NoProcess == [st |-> "none", eof |-> FALSE, rc |-> NoReturnCode, cmd |-> <<>>]

\* ProcessingService after __init__, with the setting
\* delete_original_after_processing its watch-folder callers pass on: the
\* process_file call in flight and its job id, active_jobs (its keys),
\* the position of each job's _monitor_job task, processed_files, the notify
\* calls made so far, and the files it has unlinked
NoProcessing(delete_original) ==
    [call |-> "idle", job_id |-> <<>>, delete_original |-> delete_original,
     active_jobs |-> {}, monitors |-> <<>>, processed_files |-> <<>>,
     notified |-> <<>>, unlinked |-> {}]

\* batch_transcode: the list it was given, the items its loop has not reached
\* yet, and its results list
NoBatch == [st |-> "idle", given |-> <<>>, items |-> <<>>, results |-> <<>>]

\* ------------------------------------------------------------------------
\* State
\* ------------------------------------------------------------------------
VARIABLES
    jobs,       \* HandBrakeService.jobs: job id -> job object (index into heap)
    heap,       \* the TranscodeJob objects, in order of creation
    tasks,      \* position of each job's _run_transcode_job task
    procs,      \* the external process of each job
    cancels,    \* position of the cancel_job call in flight on each job
    presets,    \* HandBrakeService._supported_presets
    pending,    \* transcode calls suspended in get_presets
    batch,      \* the batch_transcode call in flight
    lastOp,     \* the operation that made the last step, and its result
    returned,   \* job ids returned by transcode so far
    liveCancel, \* per job: outcome of a cancel_job issued while the process ran
    handbrake_version,  \* HandBrakeService.handbrake_version
    processing_service  \* the ProcessingService object and its tasks

vars == <<jobs, heap, tasks, procs, cancels, presets, pending, batch, lastOp, returned, liveCancel,
          handbrake_version, processing_service>>

\* what a step did: the operation, its result, the job id it was given or
\* returned, and for a transcode call that ran from its first line in this
\* step its raw input path and the host load sample it read (NoLoad if it
\* raised before reading one)
NoCall == <<>>
NoLoad == <<>>
CallOf(input_path, load) == [input_path |-> input_path, load |-> load]
OpCall(op, res, id, call) == [op |-> op, res |-> res, id |-> id, call |-> call]
Op(op, res, id) == OpCall(op, res, id, NoCall)

InitService ==
    /\ jobs = << >>
    /\ heap = << >>
    /\ tasks = << >>
    /\ procs = << >>
    /\ cancels = << >>
    /\ pending = << >>
    /\ batch = NoBatch
    /\ lastOp = Op("init", "", <<>>)
    /\ returned = << >>
    /\ liveCancel = << >>

Init ==
    /\ InitService
    /\ presets = << >>
    /\ handbrake_version = None
    /\ processing_service = NoProcessing(FALSE)

Objects == 1..Len(heap)

\* self.jobs.get(job_id): the object, or 0 for None
Get(job_id) == IF job_id \in DOMAIN jobs THEN jobs[job_id] ELSE 0

\* len([job for job in self.jobs.values() if job.status == "processing"])
running_jobs == Cardinality({id \in DOMAIN jobs : heap[jobs[id]].status = "processing"})

\* ------------------------------------------------------------------------
\* transcode
\* ------------------------------------------------------------------------
\* variant: a load at the threshold is rejected
_check_system_resources_at(load) ==
    IF ~load.psutil THEN "ok"
    ELSE IF load.cpu >= cpu_threshold THEN "ValueError: cpu usage too high"
    ELSE IF load.mem >= memory_threshold THEN "ValueError: memory usage too high"
    ELSE "ok"

\* HandBrakeService._check_system_resources: the error raised, or "ok".  The
\* ValueError of the disk check is raised inside try/except Exception: pass.
_check_system_resources(load) ==
    IF ~load.psutil THEN "ok"
    ELSE IF load.cpu > cpu_threshold THEN "ValueError: cpu usage too high"
    ELSE IF load.mem > memory_threshold THEN "ValueError: memory usage too high"
    ELSE LET disk_check == IF load.disk > disk_threshold
                           THEN "ValueError: disk usage too high" ELSE "ok"
         IN  "ok"

\* variant: a size at a limit is rejected
AdmissionErrorInclusive(input_path, output_path) ==
    LET input == Resolve(input_path) IN
    IF ValidatePathError(input_path) # "ok" THEN ValidatePathError(input_path)
    ELSE IF ValidatePathError(output_path) # "ok" THEN ValidatePathError(output_path)
    ELSE IF ~Exists(input) THEN "FileNotFoundError"
    ELSE IF ~SizeLt(StatSize(input), Size(max_file_size_gb * 1024, 0)) THEN "ValueError: file too large"
    ELSE IF ~SizeLt(Size(0, min_file_size_bytes), StatSize(input)) THEN "ValueError: file too small"
    ELSE IF running_jobs >= max_concurrent_jobs THEN "ValueError: maximum concurrent jobs"
    ELSE "ok"

\* transcode up to the concurrency check: the error raised, or "ok"
AdmissionError(input_path, output_path) ==
    LET input == Resolve(input_path) IN
    IF ValidatePathError(input_path) # "ok" THEN ValidatePathError(input_path)
    ELSE IF ValidatePathError(output_path) # "ok" THEN ValidatePathError(output_path)
    ELSE IF ~Exists(input) THEN "FileNotFoundError"
    ELSE IF SizeLt(Size(max_file_size_gb * 1024, 0), StatSize(input)) THEN "ValueError: file too large"
    ELSE IF SizeLt(StatSize(input), Size(0, min_file_size_bytes)) THEN "ValueError: file too small"
    ELSE IF running_jobs >= max_concurrent_jobs THEN "ValueError: maximum concurrent jobs"
    ELSE "ok"

\* variant: the id is numbered by the jobs in processing status
NextJobIdRunning(input) == JobId(running_jobs + 1, Stem(input[Len(input)]))

\* the id transcode gives the next job
NextJobId(input) == JobId(Cardinality(DOMAIN jobs) + 1, Stem(input[Len(input)]))

\* variant: the registry is rebuilt around the new job
StoreJobAlone(input, output, preset, options) ==
    LET job_id == NextJobId(input)
        n == Len(heap) + 1
    IN  /\ heap' = Append(heap, NewJob(job_id, input, output,
                                       IF preset = None THEN default_preset ELSE preset,
                                       _sanitize_options(options)))
        /\ jobs' = (job_id :> n)
        /\ tasks' = Append(tasks, "start")
        /\ procs' = Append(procs, NoProcess)
        /\ cancels' = Append(cancels, "idle")
        /\ liveCancel' = Append(liveCancel, "no")
        /\ returned' = Append(returned, job_id)

\* transcode from the job id to create_task: the job is stored under its id
\* and its worker task is created, not yet run
StoreJob(input, output, preset, options) ==
    LET job_id == NextJobId(input)
        n == Len(heap) + 1
    IN  /\ heap' = Append(heap, NewJob(job_id, input, output,
                                       IF preset = None THEN default_preset ELSE preset,
                                       _sanitize_options(options)))
        /\ jobs' = (job_id :> n) @@ jobs
        /\ tasks' = Append(tasks, "start")
        /\ procs' = Append(procs, NoProcess)
        /\ cancels' = Append(cancels, "idle")
        /\ liveCancel' = Append(liveCancel, "no")
        /\ returned' = Append(returned, job_id)

NoJob == UNCHANGED <<jobs, heap, tasks, procs, cancels, liveCancel, returned>>

\* variant: the job is stored before the check that raises
RejectedAfterStore(input, output, preset, options) == StoreJob(input, output, preset, options)

\* transcode raises: every raise comes before the job is stored
Rejected(input, output, preset, options) == NoJob

\* the caller of transcode gets its result: the tool handler, the loop of
\* batch_transcode, which appends one response and goes on, or process_file
Deliver(owner, b, res, id, call) ==
    IF owner = "batch"
    THEN /\ batch' = [b EXCEPT !.st = "run",
                               !.results = Append(@, IF res = "ok" THEN "queued" ELSE "failed")]
         /\ lastOp' = OpCall("batch_item", res, id, call)
         /\ UNCHANGED processing_service
    ELSE IF owner = "watch"
    THEN \* process_file goes on to the lines after its await of transcode,
         \* or the exception leaves it
         /\ batch' = b
         /\ processing_service' = [processing_service EXCEPT
                                      !.call = IF res = "ok" THEN "store" ELSE "idle",
                                      !.job_id = id]
         /\ lastOp' = OpCall("process_file", IF res = "ok" THEN "transcode" ELSE res, id, call)
    ELSE /\ batch' = b
         /\ lastOp' = OpCall("transcode", res, id, call)
         /\ UNCHANGED processing_service

\* one transcode call, from its first line to its return or to its
\* suspension in get_presets; call = [input_path, output_path, preset, options]
TranscodeBody(call, owner, b) ==
    LET err == AdmissionError(call.input_path, call.output_path)
        input == Resolve(call.input_path)
        output == Resolve(call.output_path)
    IN  IF err # "ok"
        THEN Rejected(input, output, call.preset, call.options) /\ UNCHANGED <<presets, pending, handbrake_version>>
             /\ Deliver(owner, b, err, <<>>, CallOf(call.input_path, NoLoad))
        ELSE \E load \in Loads :
             IF _check_system_resources(load) # "ok"
             THEN Rejected(input, output, call.preset, call.options) /\ UNCHANGED <<presets, pending, handbrake_version>>
                  /\ Deliver(owner, b, _check_system_resources(load), <<>>, CallOf(call.input_path, load))
             ELSE IF call.preset # None /\ presets = <<>>
             THEN \* get_presets runs the binary: the call is suspended in
                  \* get_handbrake_version if no version is cached, else in
                  \* _run_handbrake(["--preset-list"])
                  /\ pending' = Append(pending, [input |-> input, output |-> output,
                                                 preset |-> call.preset,
                                                 options |-> call.options, owner |-> owner,
                                                 stage |-> IF handbrake_version = None
                                                           THEN "version" ELSE "list"])
                  /\ batch' = IF owner = "batch" THEN [b EXCEPT !.st = "wait"] ELSE b
                  /\ processing_service' = IF owner = "watch"
                                           THEN [processing_service EXCEPT !.call = "wait"]
                                           ELSE processing_service
                  /\ lastOp' = Op("get_presets", "await", <<>>)
                  /\ NoJob /\ UNCHANGED <<presets, handbrake_version>>
             ELSE IF call.preset # None /\ ~(\E i \in 1..Len(presets) : presets[i] = call.preset)
             THEN Rejected(input, output, call.preset, call.options) /\ UNCHANGED <<presets, pending, handbrake_version>>
                  /\ Deliver(owner, b, "ValueError: invalid preset", <<>>, CallOf(call.input_path, load))
             ELSE /\ StoreJob(input, output, call.preset, call.options)
                  /\ UNCHANGED <<presets, pending, handbrake_version>>
                  /\ Deliver(owner, b, "ok", NextJobId(input), CallOf(call.input_path, load))

\* jobs that exist or are about to be created
Committed == Len(heap) + Len(pending) + Len(batch.items)

\* the transcode_video tool
Transcode(limit, inputs, preset_args, option_args) ==
    /\ Committed < limit
    /\ \E input_path \in inputs, output_path \in OutputPaths,
          preset \in preset_args, options \in option_args :
          TranscodeBody([input_path |-> input_path, output_path |-> output_path,
                         preset |-> preset, options |-> options], "tool", batch)

\* a transcode call suspended in get_presets gets the list and runs to its end
ResumeTranscode(call, list) ==
    IF ~(\E i \in 1..Len(list) : list[i] = call.preset)
    THEN Rejected(call.input, call.output, call.preset, call.options)
         /\ Deliver(call.owner, batch, "ValueError: invalid preset", <<>>, NoCall)
    ELSE /\ StoreJob(call.input, call.output, call.preset, call.options)
         /\ Deliver(call.owner, batch, "ok", NextJobId(call.input), NoCall)

\* get_presets raises HandBrakeError to a suspended transcode call
RaiseToTranscode(call) ==
    Rejected(call.input, call.output, call.preset, call.options)
    /\ Deliver(call.owner, batch, "HandBrakeError: failed to get presets", <<>>, NoCall)

\* variant: every job of the registry counts as active
ActiveJobsAll == Cardinality({jobs[id] : id \in DOMAIN jobs})

\* len([job for job in handbrake_service.jobs.values() if job.status == "processing"])
ActiveJobs == Cardinality({i \in {jobs[id] : id \in DOMAIN jobs} : heap[i].status = "processing"})

\* get_provider_status returns its dict after both queries have returned
StatusReady ==
    /\ lastOp' = OpCall("get_provider_status", "ready", <<>>,
                        [active_jobs |-> ActiveJobs,
                         max_concurrent_jobs |-> max_concurrent_jobs])
    /\ NoJob /\ UNCHANGED <<batch, processing_service>>

\* except Exception as e: the dict with status error and str(e)
StatusError ==
    /\ lastOp' = OpCall("get_provider_status", "error", <<>>,
                        [error |-> <<"Failed to get presets: ", "stderr">>])
    /\ NoJob /\ UNCHANGED <<batch, processing_service>>

\* get_presets returns the list to the call that awaits it
Resume(call, list) ==
    IF call.owner = "status" THEN StatusReady ELSE ResumeTranscode(call, list)

\* get_presets raises HandBrakeError to the call that awaits it
Raise(call) ==
    IF call.owner = "status" THEN StatusError ELSE RaiseToTranscode(call)

Remove(k) == pending' = SubSeq(pending, 1, k - 1) \o SubSeq(pending, k + 1, Len(pending))

\* the call goes on to its next await
Await(k, stage) ==
    /\ pending' = [pending EXCEPT ![k].stage = stage]
    /\ lastOp' = Op("get_presets", "await", <<>>)
    /\ NoJob /\ UNCHANGED <<batch, processing_service>>

\* what get_handbrake_version stores after --version has run: the version
\* parsed, or "unknown" when nothing matches or _run_handbrake raises
VersionOutcomes == {"1.5.1", "unknown"}

\* get_handbrake_version: --version has run; get_presets goes on to
\* _run_handbrake(["--preset-list"]), and get_provider_status calls
\* get_presets, which returns at once if the list is cached by now
VersionReturn(k) ==
    /\ pending[k].stage = "version"
    /\ \E version \in VersionOutcomes : handbrake_version' = version
    /\ IF pending[k].owner = "status" /\ presets # <<>>
       THEN Remove(k) /\ StatusReady
       ELSE Await(k, "list")
    /\ UNCHANGED presets

\* get_presets: --preset-list has run
ListReturn(k, outcomes) ==
    /\ pending[k].stage = "list"
    /\ UNCHANGED handbrake_version
    /\ \E outcome \in outcomes :
          IF outcome[1] = "raise"
          THEN Remove(k) /\ UNCHANGED presets /\ Raise(pending[k])
          ELSE /\ presets' = outcome[2]
               /\ IF outcome[2] = <<>>
                  THEN Await(k, "legacy")
                  ELSE Remove(k) /\ Resume(pending[k], outcome[2])

\* get_presets: the legacy preset query has run; an empty parse is replaced
\* by the fallback list
LegacyReturn(k, outcomes) ==
    /\ pending[k].stage = "legacy"
    /\ UNCHANGED handbrake_version
    /\ Remove(k)
    /\ \E outcome \in outcomes :
          IF outcome[1] = "raise"
          THEN UNCHANGED presets /\ Raise(pending[k])
          ELSE LET list == IF outcome[2] = <<>> THEN fallback_presets ELSE outcome[2]
               IN  presets' = list /\ Resume(pending[k], list)

\* an await of get_presets returns to a suspended call
PresetsReturn(outcomes) ==
    \E k \in 1..Len(pending) :
        VersionReturn(k) \/ ListReturn(k, outcomes) \/ LegacyReturn(k, outcomes)

\* the get_provider_status tool, up to its return or to its first await
\* that runs the binary
get_provider_status ==
    /\ IF handbrake_version = None \/ presets = <<>>
       THEN /\ pending' = Append(pending, [input |-> <<>>, output |-> <<>>, preset |-> None,
                                           options |-> <<>>, owner |-> "status",
                                           stage |-> IF handbrake_version = None
                                                     THEN "version" ELSE "list"])
            /\ lastOp' = Op("get_presets", "await", <<>>)
            /\ NoJob /\ UNCHANGED <<batch, processing_service>>
       ELSE StatusReady /\ UNCHANGED pending
    /\ UNCHANGED <<presets, handbrake_version>>

\* ------------------------------------------------------------------------
\* batch_transcode: a loop of transcode calls that yields to the event loop
\* only where a transcode call is suspended
\* ------------------------------------------------------------------------
GoodItem == [keys_ok |-> TRUE, input_path |-> <<"v", "a.mp4">>,
             output_path |-> <<"v", "out.mkv">>, preset |-> None]
BadItems == {[keys_ok |-> FALSE, input_path |-> <<>>, output_path |-> <<"v", "out.mkv">>, preset |-> None],
             [keys_ok |-> TRUE, input_path |-> <<"v", "gone.mp4">>,
              output_path |-> <<"v", "out.mkv">>, preset |-> None]}

\* the job lists given to batch_transcode: the first item is good, lacks
\* its input_path key, or names a file that does not exist
Batches == {<<x, y>> : x \in BadItems \cup {GoodItem}, y \in {GoodItem}}
BurstBatches == {[i \in 1..MaxBurstJobs |-> GoodItem]}

\* the loop is not between two of its items: the event loop is free
LoopFree == batch.st # "run" /\ processing_service.call # "store"

BatchCall(inputs, limit) ==
    /\ batch.st = "idle"
    /\ \E items \in inputs :
          /\ Committed + Len(items) <= limit
          /\ batch' = [st |-> "run", given |-> items, items |-> items, results |-> <<>>]
    /\ lastOp' = Op("batch_transcode", "call", <<>>)
    /\ NoJob /\ UNCHANGED <<presets, pending, handbrake_version, processing_service>>

BatchStep ==
    /\ batch.st = "run"
    /\ IF batch.items = <<>>
       THEN /\ batch' = NoBatch
            /\ lastOp' = Op("batch_transcode", "return", <<>>)
            /\ NoJob /\ UNCHANGED <<presets, pending, handbrake_version, processing_service>>
       ELSE LET item == Head(batch.items)
                b == [batch EXCEPT !.items = Tail(@)]
            IN  IF ~item.keys_ok
                THEN \* job["input_path"] raises KeyError; the except block builds
                     \* TranscodeResponse(input_path=job.get("input_path", ""), ...),
                     \* whose input_path has min_length=1: the ValidationError
                     \* leaves the loop and batch_transcode
                     /\ batch' = NoBatch
                     /\ lastOp' = Op("batch_transcode", "ValidationError", <<>>)
                     /\ NoJob /\ UNCHANGED <<presets, pending, handbrake_version, processing_service>>
                ELSE TranscodeBody([input_path |-> item.input_path,
                                    output_path |-> item.output_path,
                                    preset |-> IF item.preset = None THEN default_preset ELSE item.preset,
                                    options |-> <<>>], "batch", b)

\* ------------------------------------------------------------------------
\* get_job_status
\* ------------------------------------------------------------------------
UnknownId == <<"n", "o">>

\* JobStatusResponse(...): the status it carries, or the ValidationError of
\* a field that breaks its constraint (input_path, output_path: min_length=1;
\* progress: ge=0.0, le=100.0)
JobStatusResponse(status, progress, input_path, output_path) ==
    IF input_path = <<>> \/ output_path = <<>> \/ progress < 0 \/ progress > 100
    THEN "ValidationError" ELSE status

\* the get_job_status tool: the response it returns, or the error it raises
get_job_status(job_id) ==
    /\ lastOp' = Op("get_job_status",
                    IF Get(job_id) = 0
                    THEN JobStatusResponse("not_found", 0, <<>>, <<>>)
                    ELSE LET job == heap[Get(job_id)]
                         IN  JobStatusResponse(job.status, job.progress, job.input_path, job.output_path),
                    job_id)
    /\ NoJob /\ UNCHANGED <<presets, pending, batch, handbrake_version, processing_service>>

\* ------------------------------------------------------------------------
\* _run_transcode_job: the worker task of job object i
\* ------------------------------------------------------------------------
\* variant: the except block records the error and leaves the status
FailedKeepsStatus(job, message) == [job EXCEPT !.error = ErrorOf(message)]

\* except Exception as e: job.status = "failed"; job.error = str(e)
Failed(job, message) == [job EXCEPT !.status = "failed", !.error = ErrorOf(message)]

\* variant: the exit code is not looked at
FinishedIgnoresCode(job, rc) == [job EXCEPT !.status = "completed", !.progress = 100]

\* variant: completion leaves progress at the last value read
FinishedKeepsProgress(job, rc) ==
    IF rc = 0 THEN [job EXCEPT !.status = "completed"]
    ELSE [job EXCEPT !.status = "failed", !.error = ErrorOf(ExitError(rc))]

\* the branch on process.returncode
Finished(job, rc) ==
    IF rc = 0 THEN [job EXCEPT !.status = "completed", !.progress = 100]
    ELSE [job EXCEPT !.status = "failed", !.error = ErrorOf(ExitError(rc))]

\* one argument of the command line: k tells a flag (v its name without the
\* dashes) from the argument that follows one
Arg(k, v) == [k |-> k, v |-> v]

\* the loop over job.options.items(): --key alone for True, nothing for
\* False, --key str(value) for the rest
RECURSIVE OptionArgv(_)
OptionArgv(options) ==
    IF options = <<>> THEN <<>>
    ELSE LET kv == Head(options) IN
         (IF kv[2].t = "bool"
          THEN (IF kv[2].v THEN <<Arg("flag", kv[1])>> ELSE <<>>)
          ELSE <<Arg("flag", kv[1]), Arg(kv[2].t, kv[2].v)>>)
         \o OptionArgv(Tail(options))

\* cmd of _run_transcode_job
cmd(job) ==
    <<Arg("program", <<"HandBrakeCLI">>),
      Arg("flag", <<"input">>), Arg("path", job.input_path),
      Arg("flag", <<"output">>), Arg("path", job.output_path),
      Arg("flag", <<"preset-import-gui">>),
      Arg("flag", <<"preset">>), Arg("preset", job.preset),
      Arg("flag", <<"json">>)>> \o OptionArgv(job.options)

WorkerFrame == UNCHANGED <<jobs, cancels, presets, pending, batch, returned, liveCancel, handbrake_version,
                           processing_service>>

\* first step: status, output directory, command line, up to the await of
\* create_subprocess_exec
WorkerStart(i) ==
    /\ tasks[i] = "start"
    /\ \E mkdir_ok \in BOOLEAN :
          IF mkdir_ok
          THEN /\ heap' = [heap EXCEPT ![i].status = "processing"]
               /\ tasks' = [tasks EXCEPT ![i] = "spawning"]
               /\ procs' = [procs EXCEPT ![i].cmd = cmd(heap[i])]
          ELSE /\ heap' = [heap EXCEPT ![i] = Failed([@ EXCEPT !.status = "processing"], <<"OSError">>)]
               /\ tasks' = [tasks EXCEPT ![i] = "done"]
               /\ UNCHANGED procs
    /\ lastOp' = Op("worker", "", <<>>)
    /\ WorkerFrame

\* create_subprocess_exec returns the process, or raises and leaves none
WorkerSpawned(i) ==
    /\ tasks[i] = "spawning"
    /\ \/ /\ procs' = [procs EXCEPT ![i] = [@ EXCEPT !.st = "running", !.eof = FALSE, !.rc = NoReturnCode]]
          /\ heap' = [heap EXCEPT ![i].process = TRUE]
          /\ tasks' = [tasks EXCEPT ![i] = "reading"]
       \/ \E message \in SpawnErrors :
          /\ heap' = [heap EXCEPT ![i] = Failed(@, message)]
          /\ tasks' = [tasks EXCEPT ![i] = "done"]
          /\ procs' = [procs EXCEPT ![i] = NoProcess]
    /\ lastOp' = Op("worker", "", <<>>)
    /\ WorkerFrame

\* readline returns a line
WorkerReadLine(i, lines) ==
    /\ tasks[i] = "reading"
    /\ ~procs[i].eof
    /\ \E line \in lines :
          CASE line.k = "progress" ->
                 /\ heap' = [heap EXCEPT ![i].progress = line.v]
                 /\ UNCHANGED tasks
            [] line.k = "text" ->
                 UNCHANGED <<heap, tasks>>
            [] OTHER ->
                 /\ heap' = [heap EXCEPT ![i] = Failed(@, <<"TypeError">>)]
                 /\ tasks' = [tasks EXCEPT ![i] = "done"]
    /\ lastOp' = Op("worker", "", <<>>)
    /\ UNCHANGED procs /\ WorkerFrame

\* variant: a process that exits with an error is started again
AfterWaitRetry(i, rc) ==
    IF rc = 0
    THEN /\ heap' = [heap EXCEPT ![i] = Finished(@, rc)]
         /\ tasks' = [tasks EXCEPT ![i] = "done"]
    ELSE /\ tasks' = [tasks EXCEPT ![i] = "spawning"]
         /\ UNCHANGED heap

\* after process.wait() has returned rc: completed at once, failed once
\* stderr has been read to its end
AfterWait(i, rc) ==
    IF rc = 0 \/ procs[i].st = "closed"
    THEN /\ heap' = [heap EXCEPT ![i] = Finished(@, rc)]
         /\ tasks' = [tasks EXCEPT ![i] = "done"]
    ELSE /\ tasks' = [tasks EXCEPT ![i] = "draining"]
         /\ UNCHANGED heap

\* readline returns b"": process.wait() returns at once if the exit code is
\* known, and suspends otherwise
WorkerEOF(i) ==
    /\ tasks[i] = "reading"
    /\ procs[i].eof
    /\ IF procs[i].rc = NoReturnCode
       THEN tasks' = [tasks EXCEPT ![i] = "waiting"] /\ UNCHANGED heap
       ELSE AfterWait(i, procs[i].rc)
    /\ lastOp' = Op("worker", "", <<>>)
    /\ UNCHANGED procs /\ WorkerFrame

\* process.wait() returns to the suspended worker
WorkerWaitReturn(i) ==
    /\ tasks[i] = "waiting"
    /\ procs[i].st = "closed"
    /\ AfterWait(i, procs[i].rc)
    /\ lastOp' = Op("worker", "", <<>>)
    /\ UNCHANGED procs /\ WorkerFrame

\* process.stderr.read() returns to the suspended worker
WorkerDrained(i) ==
    /\ tasks[i] = "draining"
    /\ procs[i].st = "closed"
    /\ AfterWait(i, procs[i].rc)
    /\ lastOp' = Op("worker", "", <<>>)
    /\ UNCHANGED procs /\ WorkerFrame

\* ------------------------------------------------------------------------
\* The external process, as asyncio sees it
\* ------------------------------------------------------------------------
ProcFrame == UNCHANGED <<jobs, heap, tasks, cancels, presets, pending, batch, returned, liveCancel,
                         handbrake_version, processing_service>>

\* stdout reaches its end
ProcCloseStdout(i) ==
    /\ procs[i].st \in {"running", "exited"}
    /\ ~procs[i].eof
    /\ procs' = [procs EXCEPT ![i].eof = TRUE]
    /\ lastOp' = Op("process", "", <<>>)
    /\ ProcFrame

\* the process exits and the loop learns its exit code
ProcExit(i) ==
    /\ procs[i].st = "running"
    /\ \E rc \in ExitCodes : procs' = [procs EXCEPT ![i].st = "exited", ![i].rc = rc]
    /\ lastOp' = Op("process", "", <<>>)
    /\ ProcFrame

\* exit code known and pipes closed: the transport wakes the waiters of
\* wait() and drops the process
ProcFinalize(i) ==
    /\ procs[i].st = "exited"
    /\ procs[i].eof
    /\ procs' = [procs EXCEPT ![i].st = "closed"]
    /\ lastOp' = Op("process", "", <<>>)
    /\ ProcFrame

\* ------------------------------------------------------------------------
\* cancel_job
\* ------------------------------------------------------------------------
CancelFrame == UNCHANGED <<jobs, tasks, procs, presets, pending, batch, returned, handbrake_version,
                           processing_service>>

\* variant: cancel_job leaves a status of its own
CancelledAsStopping(job) == [job EXCEPT !.status = "stopping"]

\* job.status = "cancelled"; return True
Cancelled(job) == [job EXCEPT !.status = "cancelled"]

\* cancel_job from its first line to its return or to its first suspension.
\* Process.terminate() raises ProcessLookupError once the transport has
\* dropped the process, and so does the kill() of the except block; on a
\* process that has exited but is not dropped yet the signal is skipped.
cancel_job(job_id) ==
    LET i == Get(job_id) IN
    /\ i # 0 => cancels[i] = "idle"
    /\ IF i = 0 \/ ~heap[i].process
       THEN /\ lastOp' = Op("cancel_job", "false", job_id)
            /\ UNCHANGED <<heap, cancels, liveCancel>>
       ELSE CASE procs[i].st = "closed" ->
                   /\ lastOp' = Op("cancel_job", "ProcessLookupError", job_id)
                   /\ UNCHANGED <<heap, cancels, liveCancel>>
              [] procs[i].st = "exited" ->
                   /\ heap' = [heap EXCEPT ![i] = Cancelled(@)]
                   /\ lastOp' = Op("cancel_job", "true", job_id)
                   /\ UNCHANGED <<cancels, liveCancel>>
              [] OTHER ->
                   /\ cancels' = [cancels EXCEPT ![i] = "term_wait"]
                   /\ liveCancel' = [liveCancel EXCEPT ![i] = IF @ = "no" THEN "pending" ELSE @]
                   /\ lastOp' = Op("cancel_job", "await", job_id)
                   /\ UNCHANGED heap
    /\ CancelFrame

\* the suspended cancel_job sets the status and returns True
CancelReturn(i) ==
    /\ heap' = [heap EXCEPT ![i] = Cancelled(@)]
    /\ cancels' = [cancels EXCEPT ![i] = "idle"]
    /\ liveCancel' = [liveCancel EXCEPT ![i] = IF @ = "pending" THEN "true" ELSE @]
    /\ lastOp' = Op("cancel_job_resumed", "true", heap[i].job_id)

\* wait_for(process.wait(), 5.0) returns within the grace period.  The
\* transport wakes the waiters of wait() after it has fed the end of stdout
\* to the reader, so a worker suspended in readline runs first.
CancelTermReturn(i) ==
    /\ cancels[i] = "term_wait"
    /\ procs[i].st = "closed"
    /\ tasks[i] # "reading"
    /\ CancelReturn(i)
    /\ CancelFrame

\* the grace period ends first: kill(), then process.wait(), which returns
\* at once if the exit code is known
CancelTimeout(i) ==
    /\ cancels[i] = "term_wait"
    /\ procs[i].st # "closed"
    /\ IF procs[i].st = "exited"
       THEN CancelReturn(i)
       ELSE /\ cancels' = [cancels EXCEPT ![i] = "kill_wait"]
            /\ lastOp' = Op("cancel_job_resumed", "await", heap[i].job_id)
            /\ UNCHANGED <<heap, liveCancel>>
    /\ CancelFrame

\* variant: cancel_job returns right after kill(), without the wait
CancelKillReturnAtOnce(i) ==
    /\ cancels[i] = "kill_wait"
    /\ CancelReturn(i)
    /\ CancelFrame

\* process.wait() returns after the kill
CancelKillReturn(i) ==
    /\ cancels[i] = "kill_wait"
    /\ procs[i].st = "closed"
    /\ tasks[i] # "reading"
    /\ CancelReturn(i)
    /\ CancelFrame

\* ------------------------------------------------------------------------
\* ProcessingService: process_file, called for each file of a watch folder,
\* and the _monitor_job task of each job it starts
\* ------------------------------------------------------------------------
\* input_path.exists(): one of the files, and not unlinked since
OnDisk(p) == Exists(p) /\ p \notin processing_service.unlinked

\* output_dir / f"{input_path.stem}_converted.mkv", output_dir being the
\* directory of the input
ConvertedPath(input_path) ==
    SubSeq(input_path, 1, Len(input_path) - 1)
        \o <<IF input_path[Len(input_path)] = "a.mp4" THEN "a_converted.mkv" ELSE "converted.mkv">>

\* the dict process_file assigns to job.options; str(input_path) is the path
\* of the job, the watch folder handing over paths that resolve to themselves
WatchOptions(delete_original, input_path, output_path) ==
    << << <<"delete_original">>, [t |-> "bool", v |-> delete_original] >>,
       << <<"original_path">>, [t |-> "str", v |-> input_path] >>,
       << <<"output_path">>, [t |-> "str", v |-> output_path] >> >>

\* process_file from its first line to the return or the suspension of its
\* transcode call
process_file(input_path) ==
    /\ processing_service.call = "idle"
    /\ IF ~OnDisk(input_path)
       THEN /\ lastOp' = Op("process_file", "FileNotFoundError", <<>>)
            /\ NoJob
            /\ UNCHANGED <<presets, pending, batch, handbrake_version, processing_service>>
       ELSE TranscodeBody([input_path |-> input_path, output_path |-> ConvertedPath(input_path),
                           preset |-> default_preset, options |-> <<>>], "watch", batch)

\* process_file after transcode has returned the job id, run without a
\* suspension: job.options, active_jobs, the monitor task, and notify, which
\* returns at once or awaits its senders
ProcessFileStore ==
    /\ processing_service.call = "store"
    /\ LET job_id == processing_service.job_id
           i == Get(job_id)
       IN  \E sent \in BOOLEAN :
           /\ heap' = [heap EXCEPT ![i].options =
                          WatchOptions(processing_service.delete_original,
                                       heap[i].input_path, heap[i].output_path)]
           /\ processing_service' =
                 [processing_service EXCEPT
                    !.call = IF sent THEN "notify" ELSE "idle",
                    !.active_jobs = @ \cup {job_id},
                    !.monitors = (job_id :> "poll") @@ @,
                    !.notified = Append(@, <<"job_started", job_id>>)]
           /\ lastOp' = Op("process_file", IF sent THEN "await" ELSE "return", job_id)
    /\ UNCHANGED <<jobs, tasks, procs, cancels, presets, pending, batch, returned, liveCancel,
                   handbrake_version>>

\* notify("job_started") returns and process_file returns the job id
ProcessFileNotified ==
    /\ processing_service.call = "notify"
    /\ processing_service' = [processing_service EXCEPT !.call = "idle"]
    /\ lastOp' = Op("process_file", "return", processing_service.job_id)
    /\ NoJob /\ UNCHANGED <<presets, pending, batch, handbrake_version>>

\* variant: the loop of _monitor_job goes on for a cancelled job
MonitorBreaksOnResult(status) == status \in {"completed", "failed"}

\* job.status in ["completed", "failed", "cancelled"]
MonitorBreaks(status) == status \in {"completed", "failed", "cancelled"}

\* options.get(key, default)
OptionGet(options, key, default) ==
    IF \E k \in 1..Len(options) : options[k][1] = key
    THEN options[CHOOSE k \in 1..Len(options) : options[k][1] = key][2].v
    ELSE default

\* _handle_job_completion up to its await of notify; unlink may raise, which
\* is logged
_handle_job_completion(service, job, unlink_ok) ==
    LET original_path == OptionGet(job.options, <<"original_path">>, <<>>)
        delete_original == OptionGet(job.options, <<"delete_original">>, FALSE)
    IN  [service EXCEPT
           !.unlinked = IF /\ delete_original
                           /\ Exists(original_path) /\ original_path \notin service.unlinked
                           /\ unlink_ok
                        THEN @ \cup {original_path} ELSE @,
           !.processed_files = Append(@, original_path),
           !.notified = Append(@, <<"job_completed", job.job_id>>)]

\* _handle_job_failure up to its await of notify
_handle_job_failure(service, job) ==
    [service EXCEPT !.notified = Append(@, <<"job_failed", job.job_id>>)]

\* self.active_jobs.pop(job_id, None), and the task ends
MonitorEnd(service, job_id) ==
    [service EXCEPT !.active_jobs = @ \ {job_id}, !.monitors[job_id] = "done"]

\* _monitor_job: one turn of its loop, from get_job_status to the sleep, or
\* past the loop to the await of notify or to the end
MonitorPoll(job_id) ==
    /\ job_id \in DOMAIN processing_service.monitors
    /\ processing_service.monitors[job_id] = "poll"
    /\ LET job == heap[Get(job_id)] IN
       IF ~MonitorBreaks(job.status)
       THEN /\ lastOp' = Op("_monitor_job", "sleep", job_id)
            /\ UNCHANGED processing_service
       ELSE \E sent, unlink_ok \in BOOLEAN :
            LET handled == IF job.status = "completed"
                           THEN _handle_job_completion(processing_service, job, unlink_ok)
                           ELSE IF job.status = "failed"
                           THEN _handle_job_failure(processing_service, job)
                           ELSE processing_service
                waits == sent /\ job.status \in {"completed", "failed"}
            IN  /\ processing_service' = IF waits
                                         THEN [handled EXCEPT !.monitors[job_id] = "notify"]
                                         ELSE MonitorEnd(handled, job_id)
                /\ lastOp' = Op("_monitor_job", IF waits THEN "await" ELSE "return", job_id)
    /\ NoJob /\ UNCHANGED <<presets, pending, batch, handbrake_version>>

\* notify returns to the handler, and _monitor_job runs to its end
MonitorNotified(job_id) ==
    /\ job_id \in DOMAIN processing_service.monitors
    /\ processing_service.monitors[job_id] = "notify"
    /\ processing_service' = MonitorEnd(processing_service, job_id)
    /\ lastOp' = Op("_monitor_job", "return", job_id)
    /\ NoJob /\ UNCHANGED <<presets, pending, batch, handbrake_version>>

\* ------------------------------------------------------------------------
\* Specifications
\* ------------------------------------------------------------------------
JobIds == DOMAIN jobs \cup {UnknownId}

\* Lifecycle: one job at a time through transcode, its worker, its process
\* and cancel_job, in every interleaving
ToolTranscode == LoopFree /\ Transcode(MaxJobs, {<<"v", "a.mp4">>, <<"v", "gone.mp4">>},
                                       {None, "Fast 1080p30"}, OptionArgs)
ToolCancel == LoopFree /\ \E id \in JobIds : cancel_job(id)
Discovery == LoopFree /\ PresetsReturn(DiscoveryOutcomes)
Start == LoopFree /\ \E i \in Objects : WorkerStart(i)
Spawned == LoopFree /\ \E i \in Objects : WorkerSpawned(i)
ReadLine == LoopFree /\ \E i \in Objects : WorkerReadLine(i, Lines)
ReadEOF == LoopFree /\ \E i \in Objects : WorkerEOF(i)
WaitReturn == LoopFree /\ \E i \in Objects : WorkerWaitReturn(i)
Drained == LoopFree /\ \E i \in Objects : WorkerDrained(i)
CloseStdout == LoopFree /\ \E i \in Objects : ProcCloseStdout(i)
Exit == LoopFree /\ \E i \in Objects : ProcExit(i)
Finalize == LoopFree /\ \E i \in Objects : ProcFinalize(i)
TermReturn == LoopFree /\ \E i \in Objects : CancelTermReturn(i)
Timeout == LoopFree /\ \E i \in Objects : CancelTimeout(i)
KillReturn == LoopFree /\ \E i \in Objects : CancelKillReturn(i)

Next ==
    \/ ToolTranscode
    \/ ToolCancel
    \/ Discovery
    \/ Start
    \/ Spawned
    \/ ReadLine
    \/ ReadEOF
    \/ WaitReturn
    \/ Drained
    \/ CloseStdout
    \/ Exit
    \/ Finalize
    \/ TermReturn
    \/ Timeout
    \/ KillReturn

Spec == Init /\ [][Next]_vars

\* Lifecycle with a transcoder that writes only progress objects and text
ReadProgressLine == LoopFree /\ \E i \in Objects : WorkerReadLine(i, ProgressLines)

NextProgress ==
    \/ ToolTranscode
    \/ ToolCancel
    \/ Discovery
    \/ Start
    \/ Spawned
    \/ ReadProgressLine
    \/ ReadEOF
    \/ WaitReturn
    \/ Drained
    \/ CloseStdout
    \/ Exit
    \/ Finalize
    \/ TermReturn
    \/ Timeout
    \/ KillReturn

SpecProgress == Init /\ [][NextProgress]_vars

\* Lifecycle under fair scheduling: the event loop runs every task that is
\* ready, and the transcoder of a job closes its stdout and exits
WorkerStep(i) ==
    /\ LoopFree /\ i \in Objects
    /\ \/ WorkerStart(i) \/ WorkerSpawned(i) \/ WorkerEOF(i)
       \/ WorkerWaitReturn(i) \/ WorkerDrained(i)

ProcStep(i) ==
    /\ LoopFree /\ i \in Objects
    /\ \/ ProcCloseStdout(i) \/ ProcExit(i) \/ ProcFinalize(i)

\* jobs are created from one valid input, without a preset
LiveTranscode == LoopFree /\ Transcode(MaxLiveJobs, {<<"v", "a.mp4">>}, {None}, OptionArgs)

\* the transcoder writes text, and a line the read loop raises on
ReadLiveLine ==
    LoopFree /\ \E i \in Objects :
        WorkerReadLine(i, {[k |-> "text", v |-> 0], [k |-> "json_number", v |-> 0]})

NextLive ==
    \/ LiveTranscode
    \/ ToolCancel
    \/ Start
    \/ Spawned
    \/ ReadLiveLine
    \/ ReadEOF
    \/ WaitReturn
    \/ Drained
    \/ CloseStdout
    \/ Exit
    \/ Finalize
    \/ TermReturn
    \/ Timeout
    \/ KillReturn

Fairness == \A i \in 1..MaxLiveJobs : WF_vars(WorkerStep(i)) /\ WF_vars(ProcStep(i))

SpecLive == Init /\ [][NextLive]_vars /\ Fairness

\* Registry: several jobs created by transcode_video and batch_transcode,
\* read by get_job_status, while workers start and spawn their processes
RegistryTranscode == LoopFree /\ Transcode(MaxRegistryJobs, {<<"v", "a.mp4">>, <<"v", "1_a.mp4">>, <<"v", "b.txt">>},
                                           {None}, OptionArgs)
RegistryBatch == LoopFree /\ BatchCall(Batches, MaxRegistryJobs)
ToolStatus == LoopFree /\ \E id \in JobIds : get_job_status(id)
\* get_job_status asked about a job whose worker has not run yet
RegistryStatus ==
    LoopFree /\ \E id \in DOMAIN jobs : tasks[jobs[id]] = "start" /\ get_job_status(id)

NextRegistry ==
    \/ RegistryTranscode
    \/ RegistryBatch
    \/ BatchStep
    \/ RegistryStatus
    \/ Discovery
    \/ Start
    \/ Spawned

SpecRegistry == Init /\ [][NextRegistry]_vars

\* Admission under a burst: a batch of MaxBurstJobs items and single
\* transcode calls, accepted and rejected, while workers start
BurstTranscode == LoopFree /\ Transcode(MaxBurstJobs, {<<"v", "a.mp4">>, <<"v", "b.txt">>, <<"v", "gone.mp4">>},
                                        {None}, OptionArgs)
BurstBatch == LoopFree /\ BatchCall(BurstBatches, MaxBurstJobs)

NextBurst ==
    \/ BurstTranscode
    \/ BurstBatch
    \/ BatchStep
    \/ Discovery
    \/ Start

SpecBurst == Init /\ [][NextBurst]_vars

\* Validation: transcode calls with every kind of path, file size and
\* options dict, while workers start
AdmissionTranscode == LoopFree /\ Transcode(MaxAdmissionJobs, InputPaths, {None}, OptionMaps)

NextAdmission ==
    \/ AdmissionTranscode
    \/ Start

SpecAdmission == Init /\ [][NextAdmission]_vars

\* Race: a client that asks for its next job once the previous one is over;
\* every job runs through its worker and its process while cancel_job is
\* called at any moment
RaceTranscode ==
    /\ LoopFree
    /\ \A i \in Objects : tasks[i] = "done" /\ cancels[i] = "idle"
    /\ Transcode(MaxRaceJobs, {<<"v", "a.mp4">>}, {None}, OptionArgs)

NextRace ==
    \/ RaceTranscode
    \/ ToolCancel
    \/ Start
    \/ Spawned
    \/ ReadEOF
    \/ WaitReturn
    \/ Drained
    \/ CloseStdout
    \/ Exit
    \/ Finalize
    \/ TermReturn
    \/ Timeout
    \/ KillReturn

SpecRace == Init /\ [][NextRace]_vars

\* Output: jobs that no cancel_job touches, with a transcoder that writes
\* progress objects and text and exits with any code
OutputTranscode == LoopFree /\ Transcode(MaxOutputJobs, {<<"v", "a.mp4">>}, {None}, OptionArgs)

NextOutput ==
    \/ OutputTranscode
    \/ Start
    \/ Spawned
    \/ ReadProgressLine
    \/ ReadEOF
    \/ WaitReturn
    \/ Drained
    \/ CloseStdout
    \/ Exit
    \/ Finalize

SpecOutput == Init /\ [][NextOutput]_vars

\* Discovery: transcode calls with and without a preset, the former
\* suspended in get_handbrake_version and get_presets while the others run,
\* with workers starting and cancel_job and get_job_status called in
\* between, on job ids of the registry and on one that is not in it; the
\* transcoder installed may lack the default preset
DiscoveryTranscode == LoopFree /\ Transcode(MaxDiscoveryJobs, {<<"v", "a.mp4">>},
                                            {None, "Fast 1080p30", "Bogus"}, OptionArgs)
InstalledDiscovery ==
    LoopFree /\ PresetsReturn(DiscoveryOutcomes \cup {<<"list", <<"Very Fast 720p30">> >>})

\* one client at a time asks for the provider status
ToolProvider ==
    /\ LoopFree
    /\ \A k \in 1..Len(pending) : pending[k].owner # "status"
    /\ get_provider_status

NextDiscovery ==
    \/ DiscoveryTranscode
    \/ InstalledDiscovery
    \/ Start
    \/ ToolCancel
    \/ ToolStatus
    \/ ToolProvider

SpecDiscovery == Init /\ [][NextDiscovery]_vars

\* Watch: a service whose presets have been listed; files of a watch folder
\* are handed to process_file, each once the job of the previous one is
\* over, with either value of the setting delete_original_after_processing;
\* every job runs through its worker, its process and its monitor task while
\* cancel_job is called at any moment, under fair scheduling and with a
\* transcoder that exits within the five seconds cancel_job waits for it
InitWatch ==
    /\ InitService
    /\ handbrake_version = "1.5.1"
    /\ presets = <<"Fast 1080p30", "Very Fast 720p30">>
    /\ \E delete_original \in BOOLEAN : processing_service = NoProcessing(delete_original)

WatchFile ==
    /\ LoopFree
    /\ Committed < MaxWatchJobs
    /\ \A i \in Objects : /\ tasks[i] = "done" /\ cancels[i] = "idle"
                          /\ processing_service.monitors[heap[i].job_id] = "done"
    /\ \E input_path \in {<<"v", "a.mp4">>, <<"v", "gone.mp4">>} : process_file(input_path)

WatchNotified == LoopFree /\ ProcessFileNotified
MonitorTurn == LoopFree /\ \E job_id \in DOMAIN jobs : MonitorPoll(job_id)
MonitorReturn == LoopFree /\ \E job_id \in DOMAIN jobs : MonitorNotified(job_id)

MonitorStep(i) ==
    /\ LoopFree /\ i \in Objects
    /\ MonitorPoll(heap[i].job_id) \/ MonitorNotified(heap[i].job_id)

NextWatch ==
    \/ WatchFile
    \/ ProcessFileStore
    \/ WatchNotified
    \/ MonitorTurn
    \/ MonitorReturn
    \/ ToolCancel
    \/ Start
    \/ Spawned
    \/ ReadEOF
    \/ WaitReturn
    \/ Drained
    \/ CloseStdout
    \/ Exit
    \/ Finalize
    \/ TermReturn

\* process_file runs on after transcode has returned; the event loop runs
\* every task that is ready, and the transcoder closes its stdout and exits
FairWatch ==
    /\ WF_vars(ProcessFileStore)
    /\ \A i \in 1..MaxWatchJobs :
          WF_vars(WorkerStep(i)) /\ WF_vars(ProcStep(i)) /\ WF_vars(MonitorStep(i))

SpecWatch == InitWatch /\ [][NextWatch]_vars /\ FairWatch

\* ------------------------------------------------------------------------
\* Properties
\* ------------------------------------------------------------------------

\* C1: once a job's status is completed, failed or cancelled, no later step
\* of any operation changes it.
C1_TerminalStatusNeverChanges ==
    [][\A i \in Objects : heap[i].status \in terminal_statuses
                            => heap'[i].status = heap[i].status]_vars

\* C2: a cancel_job issued while the job's process is running returns true,
\* and once it and the job's worker task have both finished the job's status
\* is cancelled.
C2_LiveCancelEndsCancelled ==
    \A i \in Objects :
        (liveCancel[i] # "no" /\ cancels[i] = "idle" /\ tasks[i] = "done")
            => (liveCancel[i] = "true" /\ heap[i].status = "cancelled")

\* C3: cancel_job on a job in a terminal status whose process has exited
\* returns false and leaves the job's status, progress and error unchanged.
C3_CancelAfterExitReturnsFalse ==
    [][\A id \in DOMAIN jobs :
          (/\ lastOp'.op = "cancel_job"
           /\ lastOp'.id = id
           /\ procs[jobs[id]].st \in {"exited", "closed"}
           /\ heap[jobs[id]].status \in terminal_statuses)
             => (lastOp'.res = "false" /\ heap' = heap)]_vars

\* C4: a job's process handle is set if and only if its status is queued or
\* processing and its process has been spawned.
C4_HandleIffActiveAndSpawned ==
    \A i \in Objects :
        heap[i].process <=> (heap[i].status \in {"queued", "processing"} /\ procs[i].st # "none")

\* C5: every successful transcode returns a job id different from every id
\* returned earlier, and no registry entry is ever overwritten: each job
\* created is still the one stored under its id.
C5_JobIdsUnique ==
    /\ \A a, b \in 1..Len(returned) : a # b => returned[a] # returned[b]
    /\ \A i \in Objects : Get(heap[i].job_id) = i
    /\ Cardinality(DOMAIN jobs) = Len(heap)

\* a third job is created from the input of an earlier one, while the worker
\* of an earlier job has started and the process of another is running
C5_Witness ==
    /\ Len(returned) >= 3
    /\ heap[1].input_path = heap[3].input_path
    /\ \E i \in Objects : heap[i].status = "processing" /\ tasks[i] = "spawning"
    /\ \E i \in Objects : procs[i].st = "running"

\* C6: when transcode returns a job id, the registry holds that job with
\* status queued, its worker has not run and no process exists for it; and
\* get_job_status on a job whose worker has not run yet returns queued.
C6_ReturnedJobIsQueued ==
    /\ (lastOp.op \in {"transcode", "batch_item"} /\ lastOp.res = "ok")
         => (/\ Get(lastOp.id) # 0
             /\ heap[Get(lastOp.id)].status = "queued"
             /\ tasks[Get(lastOp.id)] = "start"
             /\ procs[Get(lastOp.id)].st = "none"
             /\ ~heap[Get(lastOp.id)].process)
    /\ (lastOp.op = "get_job_status" /\ Get(lastOp.id) # 0 /\ tasks[Get(lastOp.id)] = "start")
         => lastOp.res = "queued"

\* get_job_status on the job transcode has just stored, before its worker
\* runs, while the worker of an earlier job has already spawned its process
C6_Witness ==
    /\ lastOp.op = "get_job_status"
    /\ Get(lastOp.id) = Len(heap)
    /\ Len(heap) >= 2
    /\ tasks[Len(heap)] = "start"
    /\ procs[1].st = "running"

\* C7: the number of jobs in processing status never exceeds the configured
\* maximum concurrency.
C7_ProcessingWithinCeiling == running_jobs <= max_concurrent_jobs

\* C8: a transcode call that fails leaves the registry unchanged, starts no
\* worker task and spawns no process.
C8_FailedTranscodeChangesNothing ==
    [][(lastOp'.op \in {"transcode", "batch_item"} /\ lastOp'.res # "ok")
         => UNCHANGED <<jobs, heap, tasks, procs>>]_vars

\* transcode is rejected at the concurrency ceiling
C8_Witness ==
    /\ lastOp.op = "transcode"
    /\ lastOp.res = "ValueError: maximum concurrent jobs"
    /\ running_jobs = max_concurrent_jobs

C10_FailedHasNonEmptyError ==
    \A i \in Objects :
        heap[i].status = "failed" => (heap[i].error # NoError /\ heap[i].error[1] # <<>>)

\* C13: every job's progress lies in [0.0, 100.0], the range the response
\* model of the get_job_status tool accepts.
C13_ProgressWithinRange ==
    \A i \in Objects : heap[i].progress >= 0 /\ heap[i].progress <= 100

\* C11: a job's error is set only if its status is failed: no job in queued,
\* processing, completed or cancelled status carries an error.
C11_ErrorOnlyWhenFailed ==
    \A i \in Objects : heap[i].error # NoError => heap[i].status = "failed"

\* C12: between two successive values of a job's progress, both seen while
\* its status is processing, progress does not decrease.
C12_ProgressNeverDecreases ==
    [][\A i \in Objects :
          (heap[i].status = "processing" /\ heap'[i].status = "processing")
             => heap'[i].progress >= heap[i].progress]_vars

\* C14: under fair scheduling of the worker, and with a process that closes
\* stdout and exits, every job stored by transcode eventually has status
\* completed, failed or cancelled; and a worker that has ended, by return or
\* by exception, never leaves its job in queued or processing.
C14_EveryJobEnds ==
    /\ [](\A i \in Objects :
            tasks[i] = "done" => heap[i].status \in terminal_statuses)
    /\ \A i \in 1..MaxLiveJobs :
          (i \in Objects) ~> (i \in Objects /\ heap[i].status \in terminal_statuses)

\* a worker ended by an exception raised in the read loop, its process still
\* running
C14_Witness ==
    \E i \in Objects :
        /\ tasks[i] = "done"
        /\ heap[i].error = ErrorOf(<<"TypeError">>)
        /\ procs[i].st = "running"

\* C15: cancel_job on a job whose status is queued returns true and sets the
\* status to cancelled in the same step, and a job cancelled while queued is
\* not moved to processing afterwards.
C15_CancelQueuedTakesEffect ==
    [][\A id \in DOMAIN jobs :
          /\ (lastOp'.op = "cancel_job" /\ lastOp'.id = id /\ heap[jobs[id]].status = "queued")
                => (lastOp'.res = "true" /\ heap'[jobs[id]].status = "cancelled")
          /\ (heap[jobs[id]].status = "cancelled" /\ tasks[jobs[id]] = "start")
                => heap'[jobs[id]].status = "cancelled"]_vars

\* C16: a transcode call that has passed the path and size checks is rejected
\* for concurrency exactly when the jobs in processing status number at least
\* the maximum, and then reads no load and leaves the size of the job map
\* unchanged; otherwise, the load being measured, it is rejected for CPU
\* exactly when CPU is above 90, and for memory exactly when CPU is at most
\* 90 and memory is above 85.
C16_AdmissionOrder ==
    [][LET res == lastOp'.res
           load == lastOp'.call.load
       IN  (/\ lastOp'.op \in {"transcode", "batch_item"}
            /\ lastOp'.call # NoCall
            /\ res \in {"ok", "ValueError: invalid preset",
                        "ValueError: maximum concurrent jobs",
                        "ValueError: cpu usage too high",
                        "ValueError: memory usage too high"})
             => /\ (res = "ValueError: maximum concurrent jobs")
                      <=> (running_jobs >= max_concurrent_jobs)
                /\ (res = "ValueError: maximum concurrent jobs")
                      => (load = NoLoad /\ Cardinality(DOMAIN jobs') = Cardinality(DOMAIN jobs))
                /\ (running_jobs < max_concurrent_jobs /\ load.psutil)
                      => /\ (res = "ValueError: cpu usage too high") <=> (load.cpu > 90)
                         /\ (res = "ValueError: memory usage too high")
                               <=> (load.cpu <= 90 /\ load.mem > 85)]_vars

\* transcode is accepted with CPU at 90 and memory at 85 while one job fewer
\* than the maximum is processing
C16_Witness ==
    /\ lastOp.op = "transcode"
    /\ lastOp.res = "ok"
    /\ lastOp.call.load.psutil /\ lastOp.call.load.cpu = 90 /\ lastOp.call.load.mem = 85
    /\ running_jobs = max_concurrent_jobs - 1

\* C17: a transcode call that passes the concurrency, CPU and memory checks
\* while the disk usage is measured above 90 fails, and creates no job.
C17_DiskAboveThresholdRejected ==
    (/\ lastOp.op \in {"transcode", "batch_item"}
     /\ lastOp.call # NoCall
     /\ lastOp.call.load # NoLoad
     /\ lastOp.call.load.psutil
     /\ lastOp.call.load.cpu <= 90 /\ lastOp.call.load.mem <= 85
     /\ lastOp.call.load.disk > 90)
       => (lastOp.res # "ok" /\ Get(lastOp.id) = 0)

\* C18: the options stored by transcode, the result of _sanitize_options,
\* hold no key outside the allow-list and no string value containing one of
\* the eleven characters of injection_chars.
C18_SanitizedOptionsAreSafe ==
    \A i \in Objects : \A k \in 1..Len(heap[i].options) :
        LET key == heap[i].options[k][1]
            val == heap[i].options[k][2]
        IN  /\ Len(key) = 1 /\ key[1] \in allowed_keys
            /\ val.t \in {"bool", "int", "float", "str"}
            /\ val.t = "str" => \A c \in 1..Len(val.v) : val.v[c] \notin injection_chars

\* a job created from the options dict whose encoder value holds every
\* removed character, and whose other items are partly skipped
C18_Witness ==
    \E i \in Objects :
        /\ Len(heap[i].options) = 4
        /\ heap[i].options[1] = << <<"encoder">>, [t |-> "str", v |-> <<" ", "x">>] >>

\* C19: a transcode call whose raw input path has .. as a segment, or whose
\* input path is an existing file with an extension outside the allowed
\* set, is rejected by the path validation.
C19_TraversalAndExtensionRejected ==
    LET raw == lastOp.call.input_path IN
    (/\ lastOp.op \in {"transcode", "batch_item"}
     /\ lastOp.call # NoCall
     /\ \/ \E k \in 1..Len(raw) : raw[k] = ".."
        \/ IsFile(Resolve(raw)) /\ Suffix(raw[Len(raw)]) \notin allowed_extensions)
       => lastOp.res \in {"ValueError: invalid characters", "ValueError: directory traversal",
                          "ValueError: unsupported format", "ValueError: path too long"}

\* C20: a transcode call whose paths are valid and whose input exists is
\* rejected for its size exactly when the size is below 1024 bytes or above
\* 10 GiB, and a call rejected for its size stores no job, starts no worker
\* and spawns no process.
C20_SizeLimits ==
    [][LET raw == lastOp'.call.input_path
           size == StatSize(Resolve(raw))
       IN  (/\ lastOp'.op \in {"transcode", "batch_item"}
            /\ lastOp'.call # NoCall
            /\ lastOp'.res \notin {"ValueError: invalid characters", "ValueError: directory traversal",
                                   "ValueError: unsupported format", "ValueError: path too long",
                                   "FileNotFoundError"})
             => /\ (lastOp'.res \in {"ValueError: file too large", "ValueError: file too small"})
                      <=> (SizeLt(size, Size(0, 1024)) \/ SizeLt(Size(10 * 1024, 0), size))
                /\ (lastOp'.res \in {"ValueError: file too large", "ValueError: file too small"})
                      => UNCHANGED <<jobs, heap, tasks, procs>>]_vars

\* a file of exactly 10 GiB is accepted after a file of exactly 1024 bytes
C20_Witness ==
    /\ lastOp.op = "transcode" /\ lastOp.res = "ok"
    /\ StatSize(Resolve(lastOp.call.input_path)) = Size(10 * 1024, 0)
    /\ \E i \in Objects : StatSize(heap[i].input_path) = Size(0, 1024)

\* C21: once get_presets has succeeded (the cached list is not empty), the
\* cached list never changes again, so every later call finds it, returns
\* the identical list and does not run the binary.
C21_PresetCacheNeverChanges ==
    [][presets # <<>> => presets' = presets]_vars

\* C27: the version query caches only a parsed version: the cached value is
\* never the placeholder stored when nothing was parsed, and a parsed
\* version, once cached, stays.
C27_OnlyParsedVersionCached ==
    [][/\ handbrake_version' # "unknown"
       /\ handbrake_version # None => handbrake_version' = handbrake_version]_vars

\* C22: a batch_transcode call ends by returning, with one result per item
\* it was given, in order, and the result of an item whose job creation
\* fails (a missing key, a missing file) is a failed one.
C22_BatchOneResultPerItem ==
    [][batch.st # "idle" /\ batch'.st = "idle"
       => /\ lastOp'.res = "return"
          /\ Len(batch.results) = Len(batch.given)
          /\ \A k \in 1..Len(batch.given) :
                batch.results[k] = IF batch.given[k] \in BadItems THEN "failed" ELSE "queued"]_vars

\* C23: for a job id that is not in the registry the get_job_status tool
\* returns the status not_found and cancel_job returns false; neither raises
\* and neither changes the registry or a job.
C23_UnknownIdIsNotFound ==
    [][lastOp'.op \in {"get_job_status", "cancel_job"} /\ lastOp'.id \notin DOMAIN jobs
       => /\ lastOp'.res = IF lastOp'.op = "get_job_status" THEN "not_found" ELSE "false"
          /\ UNCHANGED <<jobs, heap>>]_vars

C29_RaceEndsInTerminalStatus ==
    \A i \in Objects :
        (tasks[i] = "done" /\ cancels[i] = "idle" /\ liveCancel[i] # "no")
        => heap[i].status \in terminal_statuses

\* both outcomes: two jobs whose cancel_job, called while the process ran,
\* has returned True and whose worker is over; one ends cancelled, the other
\* completed or failed
C29_Witness ==
    \E i, j \in Objects :
        /\ tasks[i] = "done" /\ cancels[i] = "idle" /\ liveCancel[i] = "true"
        /\ tasks[j] = "done" /\ cancels[j] = "idle" /\ liveCancel[j] = "true"
        /\ heap[i].status = "cancelled"
        /\ heap[j].status \in {"completed", "failed"}

\* C28: a job with status processing has a process handle, so that
\* cancel_job on a processing job finds a process to terminate.
C28_ProcessingHasHandle ==
    \A i \in Objects : heap[i].status = "processing" => heap[i].process

\* C30: a line read before the end of stdout never ends the read loop and
\* never changes the status or the error of the job: the worker goes on to
\* the next readline.
C30_NonProgressLinesIgnored ==
    [][lastOp'.op = "worker"
       => \A i \in Objects :
             (tasks[i] = "reading" /\ ~procs[i].eof)
             => /\ tasks'[i] = "reading"
                /\ heap'[i].status = heap[i].status
                /\ heap'[i].error = heap[i].error]_vars

\* C31: a cancel_job that finds a process first terminates it and waits; it
\* kills only from that wait and only a process that has not exited; and
\* whenever it returns True the status is cancelled and the process has
\* exited.
C31_TerminateThenKill ==
    [][\A i \in Objects :
          /\ (cancels[i] = "idle" /\ cancels'[i] # "idle") => cancels'[i] = "term_wait"
          /\ (cancels[i] # "kill_wait" /\ cancels'[i] = "kill_wait")
             => cancels[i] = "term_wait" /\ procs[i].st = "running"
          /\ (lastOp'.op \in {"cancel_job", "cancel_job_resumed"}
                /\ lastOp'.res = "true" /\ lastOp'.id = heap[i].job_id)
             => heap'[i].status = "cancelled" /\ procs'[i].st \in {"exited", "closed"}]_vars

\* the forced path: the process was killed after the grace period, has
\* exited, and cancel_job is about to return
C31_Witness ==
    \E i \in Objects : cancels[i] = "kill_wait" /\ procs[i].st = "closed"

\* C32: the preset of every job in the registry is in the list get_presets
\* returns (the cached list, once there is one), for a preset the caller
\* passed and for the default preset alike.
C32_JobPresetIsDiscovered ==
    \A i \in Objects :
        presets # <<>> => \E k \in 1..Len(presets) : presets[k] = heap[i].preset

\* C36: whenever the status of a job is completed, failed or cancelled, the
\* process spawned for it is not running any more.
C36_NoProcessOutlivesItsJob ==
    \A i \in Objects :
        heap[i].status \in terminal_statuses => procs[i].st # "running"

\* C39: _sanitize_options is idempotent: the options stored for a job, which
\* are _sanitize_options(m) for the map m the caller gave, are left as they
\* are by a second _sanitize_options.
C39_SanitizeIdempotent ==
    \A i \in Objects : _sanitize_options(heap[i].options) = heap[i].options

\* C37: the argument vector of every process holds exactly one --input, one
\* --output and one --preset flag, each followed by the job's input_path,
\* output_path and preset.
C37_OneInputOutputPreset ==
    \A i \in Objects :
        LET argv == procs[i].cmd
            At(name) == {k \in 1..Len(argv) : argv[k].k = "flag" /\ argv[k].v = name}
            Once(name, kind, value) ==
                /\ Cardinality(At(name)) = 1
                /\ \A k \in At(name) :
                      k < Len(argv) /\ argv[k + 1].k = kind /\ argv[k + 1].v = value
        IN argv # <<>> =>
              /\ Once(<<"input">>, "path", heap[i].input_path)
              /\ Once(<<"output">>, "path", heap[i].output_path)
              /\ Once(<<"preset">>, "preset", heap[i].preset)

C33_SpawnedOptionsAllowed ==
    \A i \in Objects :
        \A k \in 10..Len(procs[i].cmd) :
            procs[i].cmd[k].k = "flag" => KeyAllowed(procs[i].cmd[k].v)

\* C34: once a job is stored, no step changes its job_id, input_path,
\* output_path, preset or options.
C34_CreationFieldsFrozen ==
    [][\A i \in Objects :
          /\ heap'[i].job_id = heap[i].job_id
          /\ heap'[i].input_path = heap[i].input_path
          /\ heap'[i].output_path = heap[i].output_path
          /\ heap'[i].preset = heap[i].preset
          /\ heap'[i].options = heap[i].options]_vars

====
